---- MODULE Spec2Model ----
(***************************************************************************)
(* A model of redback's likelihood evaluators (redback/likelihoods.py), of *)
(* the fit dispatcher (redback/sampler.py) and of the data mode of a       *)
(* Transient (redback/transient/transient.py).                             *)
(*                                                                         *)
(* Floating point values are records [k, v]: k is the IEEE class of the    *)
(* value and v its magnitude in thousandths (fixed point) when k = "fin". *)
(* "nmax" / "pmax" are the most negative / most positive finite doubles,   *)
(* the values numpy.nan_to_num substitutes for the infinities.             *)
(***************************************************************************)
EXTENDS Integers, Sequences, FiniteSets, TLC

\* ------------------------------------------------------------------------
\* Floating point arithmetic as numpy performs it (no exception on a
\* division by zero or a log of a non-positive number: inf / nan result).
\* ------------------------------------------------------------------------

None == [k |-> "none", v |-> 0]
NaN == [k |-> "nan", v |-> 0]
PosInf == [k |-> "pinf", v |-> 0]
NegInf == [k |-> "ninf", v |-> 0]
PosMax == [k |-> "pmax", v |-> 0]
NegMax == [k |-> "nmax", v |-> 0]

\* a finite value given in thousandths
Milli(m) == [k |-> "fin", v |-> m]

\* the float of an integer
F(n) == Milli(n * 1000)

Abs(n) == IF n < 0 THEN -n ELSE n

\* integer division rounding toward zero (the fixed-point rounding)
QuoT(a, b) == IF (a < 0) = (b < 0) THEN Abs(a) \div Abs(b) ELSE -(Abs(a) \div Abs(b))

\* -1, 0 or 1: the sign of a float that is not a NaN
Sgn(a) ==
    CASE a.k \in {"pinf", "pmax"} -> 1
      [] a.k \in {"ninf", "nmax"} -> -1
      [] a.k = "fin" -> IF a.v > 0 THEN 1 ELSE IF a.v < 0 THEN -1 ELSE 0

FNeg(a) ==
    CASE a.k = "fin" -> Milli(-a.v)
      [] a.k = "nan" -> NaN
      [] a.k = "pinf" -> NegInf
      [] a.k = "ninf" -> PosInf
      [] a.k = "pmax" -> NegMax
      [] a.k = "nmax" -> PosMax

\* a + b; a finite value of the model's range is below half an ulp of the
\* largest double, so adding it to +-max leaves +-max, and max + max overflows
FAdd(a, b) ==
    CASE a.k = "nan" \/ b.k = "nan" -> NaN
      [] a.k = "pinf" -> IF b.k = "ninf" THEN NaN ELSE PosInf
      [] a.k = "ninf" -> IF b.k = "pinf" THEN NaN ELSE NegInf
      [] b.k \in {"pinf", "ninf"} -> b
      [] a.k = "fin" /\ b.k = "fin" -> Milli(a.v + b.v)
      [] a.k = "fin" -> b
      [] b.k = "fin" -> a
      [] a.k = "pmax" -> IF b.k = "pmax" THEN PosInf ELSE F(0)
      [] a.k = "nmax" -> IF b.k = "nmax" THEN NegInf ELSE F(0)

FSub(a, b) == FAdd(a, FNeg(b))

\* a * b for finite and infinite operands
FMul(a, b) ==
    CASE a.k = "nan" \/ b.k = "nan" -> NaN
      [] a.k = "fin" /\ b.k = "fin" -> Milli(QuoT(a.v * b.v, 1000))
      [] a.k \in {"fin", "pinf", "ninf"} /\ b.k \in {"fin", "pinf", "ninf"} ->
            IF Sgn(a) * Sgn(b) = 0 THEN NaN
            ELSE IF Sgn(a) * Sgn(b) > 0 THEN PosInf ELSE NegInf

\* a / b for finite and infinite operands
FDiv(a, b) ==
    CASE a.k = "nan" \/ b.k = "nan" -> NaN
      [] a.k = "fin" /\ b.k = "fin" ->
            IF b.v # 0 THEN Milli(QuoT(a.v * 1000, b.v))
            ELSE IF a.v = 0 THEN NaN
            ELSE IF a.v > 0 THEN PosInf ELSE NegInf
      [] a.k = "fin" -> F(0)
      [] b.k = "fin" ->
            IF (Sgn(a) > 0) = (b.v >= 0) THEN PosInf ELSE NegInf
      [] a.k \in {"pinf", "ninf"} /\ b.k \in {"pinf", "ninf"} -> NaN

\* a ** 2
FSq(a) == FMul(a, a)

RECURSIVE ISqrt(_, _, _)
\* the largest r in lo..hi with r * r <= n, by bisection (lo * lo <= n)
ISqrt(n, lo, hi) ==
    IF lo >= hi THEN lo
    ELSE LET mid == (lo + hi + 1) \div 2
         IN  IF mid * mid <= n THEN ISqrt(n, mid, hi) ELSE ISqrt(n, lo, mid - 1)

\* numpy.sqrt: nan for a negative operand
FSqrt(a) ==
    CASE a.k = "nan" -> NaN
      [] a.k = "pinf" -> PosInf
      [] a.k = "ninf" -> NaN
      [] a.k = "fin" -> IF a.v < 0 THEN NaN ELSE Milli(ISqrt(a.v * 1000, 0, a.v + 1000))

\* ln(m / 1000) * 1000 for 1000 <= m < 2000, by the series
\* 2 * (z + z^3 / 3 + z^5 / 5), z = (m - 1) / (m + 1)
LnMantissa(m) ==
    LET z == ((m - 1000) * 1000) \div (m + 1000)
        z2 == (z * z) \div 1000
        z3 == (z2 * z) \div 1000
        z5 == (z3 * z2) \div 1000
    IN  2 * (z + z3 \div 3 + z5 \div 5)

RECURSIVE LnMilli(_)
\* ln(m / 1000) * 1000 for m > 0: halve or double into [1000, 2000)
LnMilli(m) ==
    IF m >= 2000 THEN 693 + LnMilli(m \div 2)
    ELSE IF m < 1000 THEN LnMilli(m * 2) - 693
    ELSE LnMantissa(m)

\* numpy.log: -inf at zero, nan below zero
FLog(a) ==
    CASE a.k = "nan" -> NaN
      [] a.k = "pinf" -> PosInf
      [] a.k = "ninf" -> NaN
      [] a.k = "fin" ->
            IF a.v < 0 THEN NaN
            ELSE IF a.v = 0 THEN NegInf
            ELSE Milli(LnMilli(a.v))

\* numpy.nan_to_num: nan -> 0, +-inf -> the largest finite double of that sign
nan_to_num(a) ==
    CASE a.k = "nan" -> F(0)
      [] a.k = "pinf" -> PosMax
      [] a.k = "ninf" -> NegMax
      [] OTHER -> a

RECURSIVE FSum(_)
\* numpy.sum of a sequence of floats
FSum(s) == IF s = <<>> THEN F(0) ELSE FAdd(Head(s), FSum(Tail(s)))

\* a >= b as numpy compares (False when either is a NaN)
FGeq(a, b) ==
    CASE a.k = "nan" \/ b.k = "nan" -> FALSE
      [] a.k = "fin" /\ b.k = "fin" -> a.v >= b.v
      [] a.k = "pinf" -> TRUE
      [] b.k = "ninf" -> TRUE
      [] a.k = "ninf" -> FALSE
      [] b.k = "pinf" -> FALSE
      [] a.k = "pmax" -> TRUE
      [] b.k = "nmax" -> TRUE
      [] a.k = "nmax" -> FALSE
      [] b.k = "pmax" -> FALSE

TwoPi == Milli(6283)


\* ------------------------------------------------------------------------
\* Python dicts: a sequence of [k, v] entries in insertion order.
\* ------------------------------------------------------------------------

EmptyDict == <<>>

Keys(d) == [i \in 1..Len(d) |-> d[i].k]

KeySet(d) == {d[i].k : i \in 1..Len(d)}

Has(d, key) == key \in KeySet(d)

\* d[key] for a key of d
Get(d, key) == d[CHOOSE i \in 1..Len(d) : d[i].k = key].v

\* d.get(key, default)
GetOr(d, key, default) == IF Has(d, key) THEN Get(d, key) ELSE default

\* d[key] = val: in place for a key of d, appended otherwise
Put(d, key, val) ==
    IF Has(d, key)
    THEN [i \in 1..Len(d) |-> IF d[i].k = key THEN [k |-> key, v |-> val] ELSE d[i]]
    ELSE Append(d, [k |-> key, v |-> val])

RECURSIVE Update(_, _)
\* d.update(e)
Update(d, e) == IF e = <<>> THEN d ELSE Update(Put(d, Head(e).k, Head(e).v), Tail(e))

\* dict.fromkeys(names): every value None
fromkeys(names) == [i \in 1..Len(names) |-> [k |-> names[i], v |-> None]]

\* ------------------------------------------------------------------------
\* Physical models: pure functions handed to the evaluators.  A signature
\* is the sequence of formal parameters, each of kind "arg" (a named
\* positional-or-keyword parameter), "varargs" (*args) or "varkw" (**kwargs).
\* ------------------------------------------------------------------------

Arg(n) == [name |-> n, kind |-> "arg"]

linear ==
    [name |-> "linear",
     sig |-> <<Arg("time"), Arg("amplitude"), [name |-> "kwargs", kind |-> "varkw"]>>]

decaying ==
    [name |-> "decaying",
     sig |-> <<Arg("time"), Arg("amplitude"), Arg("decay"),
               [name |-> "kwargs", kind |-> "varkw"]>>]

noisy == [name |-> "noisy", sig |-> <<Arg("time"), Arg("sigma")>>]

counts_model ==
    [name |-> "counts_model",
     sig |-> <<Arg("time"), Arg("background_rate"),
               [name |-> "kwargs", kind |-> "varkw"]>>]

variadic ==
    [name |-> "variadic",
     sig |-> <<[name |-> "args", kind |-> "varargs"],
               [name |-> "kwargs", kind |-> "varkw"]>>]

\* a model that predicts no signal: zero at every point
silent ==
    [name |-> "silent",
     sig |-> <<Arg("time"), Arg("background_rate"),
               [name |-> "kwargs", kind |-> "varkw"]>>]

Models == {linear, decaying, noisy, counts_model, variadic, silent}

\* the outcome of a call: a value, or an exception of type exc
Ok(val) == [outcome |-> "ok", exc |-> "", val |-> val]
Raise(exc) == [outcome |-> "raise", exc |-> exc, val |-> None]

RECURSIVE SelectArgs(_)
SelectArgs(sig) ==
    IF sig = <<>> THEN <<>>
    ELSE IF Head(sig).kind = "arg" THEN <<Head(sig).name>> \o SelectArgs(Tail(sig))
    ELSE SelectArgs(Tail(sig))

\* inspect.getfullargspec(function).args: the named positional parameters
getfullargspec_args(function) == SelectArgs(function.sig)

HasVarKw(function) == \E i \in 1..Len(function.sig) : function.sig[i].kind = "varkw"

HasVarArgs(function) == \E i \in 1..Len(function.sig) : function.sig[i].kind = "varargs"

\* the body of a model, its keyword arguments bound: kw is the dict of every
\* keyword the call passed
ModelBody(function, x, kw) ==
    LET a(n) == Get(kw, n)
        used == CASE function.name = "linear" -> {"amplitude"}
                  [] function.name = "decaying" -> {"amplitude", "decay"}
                  [] function.name = "noisy" -> {"sigma"}
                  [] OTHER -> {}
    IN  IF \E n \in used : a(n) = None THEN Raise("TypeError")
        ELSE CASE function.name = "linear" ->
                    IF a("amplitude").v < 0 THEN Raise("ValueError")
                    ELSE Ok([i \in 1..Len(x) |-> FMul(a("amplitude"), x[i])])
               [] function.name = "decaying" ->
                    Ok([i \in 1..Len(x) |-> FSub(FMul(a("amplitude"), x[i]), a("decay"))])
               [] function.name = "noisy" ->
                    Ok([i \in 1..Len(x) |-> FMul(a("sigma"), x[i])])
               [] function.name = "counts_model" -> Ok([i \in 1..Len(x) |-> F(1)])
               [] function.name = "variadic" -> Ok([i \in 1..Len(x) |-> F(0)])
               [] function.name = "silent" -> Ok([i \in 1..Len(x) |-> F(0)])

\* function(x, **d1, **d2): Python's argument binding, then the body
CallModel(function, x, d1, d2) ==
    LET args == getfullargspec_args(function)
        kw == d1 \o d2
        named == {args[i] : i \in 1..Len(args)}
    IN  IF KeySet(d1) \cap KeySet(d2) # {} THEN Raise("TypeError")
        ELSE IF args # <<>> /\ Has(kw, args[1]) THEN Raise("TypeError")
        ELSE IF args = <<>> /\ ~HasVarArgs(function) THEN Raise("TypeError")
        ELSE IF ~HasVarKw(function) /\ ~(KeySet(kw) \subseteq named) THEN Raise("TypeError")
        ELSE IF \E i \in 2..Len(args) : ~Has(kw, args[i]) THEN Raise("TypeError")
        ELSE ModelBody(function, x, kw)


\* ------------------------------------------------------------------------
\* The evaluators.  `self` is the record of an evaluator's attributes; cls
\* is its class.  A method is an operator from self to the call's outcome
\* (and, for the caching method, the evaluator after the call).
\* ------------------------------------------------------------------------

\* GaussianLikelihood.sigma (property)
sigma(self) == GetOr(self.parameters, "sigma", self._sigma)

\* GaussianLikelihood.residual (property)
residual(self) ==
    LET m == CallModel(self.function, self.x, self.parameters, self.kwargs)
    IN  IF m.outcome = "raise" THEN m
        ELSE Ok([i \in 1..Len(self.y) |-> FSub(self.y[i], m.val[i])])

\* the summands of _log_l: - (res / sigma) ** 2 / 2 - log(2 pi sigma ** 2) / 2
_log_l_terms(res, sig) ==
    [i \in 1..Len(res) |->
        FSub(FNeg(FDiv(FSq(FDiv(res[i], sig)), F(2))),
             FDiv(FLog(FMul(TwoPi, FSq(sig))), F(2)))]

\* GaussianLikelihood._log_l (an array divided by None is a TypeError)
_log_l(res, sig) ==
    IF sig = None THEN Raise("TypeError") ELSE Ok(FSum(_log_l_terms(res, sig)))

\* GaussianLikelihoodUniformXErrors.log_likelihood_x
log_likelihood_x(self) ==
    FNeg(nan_to_num(FSum([i \in 1..self.N |-> FLog(self.xerr[i])])))

\* GaussianLikelihoodQuadratureNoise.full_sigma (property)
full_sigma(self) ==
    IF sigma(self) = None THEN Raise("TypeError")
    ELSE Ok(FSqrt(FAdd(FSq(self.sigma_i), FSq(sigma(self)))))

\* log_likelihood_y of the x-error and the non-detection evaluators
log_likelihood_y(self) ==
    LET res == residual(self)
        fs == full_sigma(self)
    IN  IF res.outcome = "raise" THEN res
        ELSE IF self.cls = "GaussianLikelihoodUniformXErrors" THEN _log_l(res.val, sigma(self))
        ELSE IF fs.outcome = "raise" THEN fs
        ELSE _log_l(res.val, fs.val)

\* GaussianLikelihoodQuadratureNoiseNonDetections.upperlimit_flux (property)
upperlimit_flux(self) == Get(self.upperlimit_kwargs, "flux")

\* a faulty log_l that lets a flux equal to the threshold pass
upper_limit_terms_strict(self, flux) ==
    [i \in 1..Len(flux) |->
        IF FGeq(flux[i], upperlimit_flux(self)) /\ flux[i] # upperlimit_flux(self)
        THEN nan_to_num(NegInf)
        ELSE FMul(FNeg(F(1)), FLog(upperlimit_flux(self)))]

\* the array log_l of log_likelihood_upper_limit, one entry per element of flux
upper_limit_terms(self, flux) ==
    [i \in 1..Len(flux) |->
        IF FGeq(flux[i], upperlimit_flux(self)) THEN nan_to_num(NegInf)
        ELSE FMul(FNeg(F(1)), FLog(upperlimit_flux(self)))]

\* the model flux log_likelihood_upper_limit re-evaluates
upper_limit_model_flux(self) ==
    CallModel(self.function, self.x, self.parameters, self.upperlimit_kwargs)

\* GaussianLikelihoodQuadratureNoiseNonDetections.log_likelihood_upper_limit
log_likelihood_upper_limit(self) ==
    LET flux == upper_limit_model_flux(self)
    IN  IF flux.outcome = "raise" THEN flux
        ELSE Ok(nan_to_num(FSum(upper_limit_terms(self, flux.val))))

RECURSIVE gammaln1(_)
\* scipy.special.gammaln(c + 1) = ln(c!) for a count c >= 0, in thousandths
gammaln1(c) == IF c <= 1 THEN 0 ELSE LnMilli(c * 1000) + gammaln1(c - 1)

\* PoissonLikelihood._poisson_log_likelihood, rate an array
_poisson_log_likelihood(self, rate) ==
    FSum([i \in 1..Len(self.y) |->
            FSub(FAdd(FNeg(rate[i]), FMul(self.y[i], FLog(rate[i]))),
                 Milli(gammaln1(self.y[i].v \div 1000)))])

\* PoissonLikelihood.dt (property)
dt(self) == Get(self.kwargs, "dt")

\* the noise-only computation of each class
noise_computation(self) ==
    CASE self.cls = "GaussianLikelihood" -> _log_l(self.y, sigma(self))
      [] self.cls = "GaussianLikelihoodUniformXErrors" ->
            LET log_y == _log_l(self.y, sigma(self))
            IN  IF log_y.outcome = "raise" THEN log_y
                ELSE Ok(FAdd(log_likelihood_x(self), log_y.val))
      [] self.cls \in {"GaussianLikelihoodQuadratureNoise",
                       "GaussianLikelihoodQuadratureNoiseNonDetections"} ->
            LET fs == full_sigma(self)
            IN  IF fs.outcome = "raise" THEN fs ELSE _log_l(self.y, fs.val)
      [] self.cls = "GRBGaussianLikelihood" ->
            _log_l([i \in 1..Len(self.y) |-> FSub(self.y[i], F(0))], sigma(self))
      [] self.cls = "PoissonLikelihood" ->
            IF ~Has(self.parameters, "background_rate") THEN Raise("KeyError")
            ELSE IF Get(self.parameters, "background_rate") = None THEN Raise("TypeError")
            ELSE LET background_rate == FMul(Get(self.parameters, "background_rate"), dt(self))
                 IN  Ok(_poisson_log_likelihood(self, [i \in 1..Len(self.y) |-> background_rate]))

\* whether noise_log_likelihood() answers from the stored value
CacheHit(self) ==
    /\ self.cls \notin {"GRBGaussianLikelihood", "PoissonLikelihood"}
    /\ self._noise_log_likelihood # None

\* whether noise_log_likelihood() stores what it computed
CacheStore(self) == self.cls # "PoissonLikelihood"

\* noise_log_likelihood(): [self: the evaluator after the call, out: the
\* call's outcome, ran: whether the noise-only computation was carried out]
noise_log_likelihood(self) ==
    IF CacheHit(self)
    THEN [self |-> self, out |-> Ok(self._noise_log_likelihood), ran |-> FALSE]
    ELSE LET c == noise_computation(self)
         IN  IF c.outcome = "raise" THEN [self |-> self, out |-> c, ran |-> FALSE]
             ELSE [self |-> IF CacheStore(self)
                            THEN [self EXCEPT !._noise_log_likelihood = c.val]
                            ELSE self,
                   out |-> c, ran |-> TRUE]

\* PoissonLikelihood.log_likelihood
PoissonLogLikelihood(self) ==
    LET m == CallModel(self.function, self.x, self.parameters, self.kwargs)
    IN  IF m.outcome = "raise" THEN m
        ELSE IF ~Has(self.parameters, "background_rate") THEN Raise("KeyError")
        ELSE IF Get(self.parameters, "background_rate") = None THEN Raise("TypeError")
        ELSE LET rate == [i \in 1..Len(m.val) |->
                            FAdd(m.val[i], Get(self.parameters, "background_rate"))]
                 scaled == IF ~self.integrated_rate_function
                           THEN [i \in 1..Len(rate) |-> FMul(rate[i], dt(self))]
                           ELSE rate
             IN  Ok(_poisson_log_likelihood(self, scaled))

\* log_likelihood() of each class
log_likelihood(self) ==
    CASE self.cls = "GaussianLikelihood" ->
            LET res == residual(self)
            IN  IF res.outcome = "raise" THEN res ELSE _log_l(res.val, sigma(self))
      [] self.cls = "GaussianLikelihoodUniformXErrors" ->
            LET log_y == log_likelihood_y(self)
            IN  IF log_y.outcome = "raise" THEN log_y
                ELSE Ok(FAdd(log_likelihood_x(self), log_y.val))
      [] self.cls = "GaussianLikelihoodQuadratureNoise" ->
            LET res == residual(self)
                fs == full_sigma(self)
            IN  IF res.outcome = "raise" THEN res
                ELSE IF fs.outcome = "raise" THEN fs
                ELSE _log_l(res.val, fs.val)
      [] self.cls = "GaussianLikelihoodQuadratureNoiseNonDetections" ->
            LET log_y == log_likelihood_y(self)
                log_u == log_likelihood_upper_limit(self)
            IN  IF log_y.outcome = "raise" THEN log_y
                ELSE IF log_u.outcome = "raise" THEN log_u
                ELSE Ok(FAdd(log_y.val, log_u.val))
      [] self.cls = "GRBGaussianLikelihood" ->
            LET res == residual(self)
            IN  IF res.outcome = "raise" THEN res ELSE _log_l(res.val, sigma(self))
      [] self.cls = "PoissonLikelihood" -> PoissonLogLikelihood(self)

\* a faulty log_likelihood() that keeps its result in the noise-only cache
log_likelihood_effect_storing(self) ==
    IF log_likelihood(self).outcome = "ok"
    THEN [self EXCEPT !._noise_log_likelihood = log_likelihood(self).val]
    ELSE self

\* the evaluator after log_likelihood(): no body assigns an attribute (the
\* residual, log_l and rate arrays are locals; rate *= self.dt multiplies the
\* fresh array of the sum in place)
log_likelihood_effect(self) == self


\* ------------------------------------------------------------------------
\* Construction.
\* ------------------------------------------------------------------------

\* list.pop(0) as the constructors use it: the list without its first
\* element, IndexError on an empty list
pop0(names) == IF names = <<>> THEN Raise("IndexError") ELSE Ok(Tail(names))

\* a faulty derivation that keeps the independent variable
inferred_parameters_keep_first(function) ==
    IF getfullargspec_args(function) = <<>> THEN Raise("IndexError")
    ELSE Ok(getfullargspec_args(function))

\* the free-parameter names a Gaussian evaluator derives from its model
inferred_parameters(function) == pop0(getfullargspec_args(function))

\* bilby.core.utils.introspection.infer_parameters_from_function for a plain
\* function: del parameters[:1], which an empty list accepts
infer_parameters_from_function(function) ==
    LET names == getfullargspec_args(function)
    IN  IF names = <<>> THEN <<>> ELSE Tail(names)

\* bilby.Likelihood.__init__(parameters): self.parameters = parameters
Likelihood_init(self, parameters) == [self EXCEPT !.parameters = parameters]

\* GaussianLikelihood.sigma (setter)
set_sigma(self, sig) ==
    [self EXCEPT !._sigma = sig,
                 !.parameters = IF sig = None THEN Put(@, "sigma", None) ELSE @]

\* GaussianLikelihood.kwargs (setter); NoDict stands for kwargs=None
NoDict == <<[k |-> "", v |-> None]>>
set_kwargs(kwargs) == IF kwargs = NoDict THEN EmptyDict ELSE kwargs

\* an evaluator no constructor has run on
Blank ==
    [cls |-> "", x |-> <<>>, y |-> <<>>, N |-> 0, function |-> variadic,
     kwargs |-> EmptyDict, _noise_log_likelihood |-> None, parameters |-> EmptyDict,
     _sigma |-> None, sigma_i |-> None, xerr |-> <<>>, upperlimit_kwargs |-> EmptyDict,
     integrated_rate_function |-> TRUE]

\* GaussianLikelihood.__init__(x, y, sigma, function, kwargs)
GaussianLikelihood_init(self, a, sig) ==
    LET s1 == [self EXCEPT !.x = a.x, !.y = a.y, !.N = Len(a.x),
                           !.function = a.function, !.kwargs = set_kwargs(a.kwargs),
                           !._noise_log_likelihood = None]
        parameters == inferred_parameters(a.function)
    IN  IF parameters.outcome = "raise" THEN parameters
        ELSE Ok(set_sigma(Likelihood_init(s1, fromkeys(parameters.val)), sig))

\* GRBGaussianLikelihood.__init__(x, y, sigma, function, kwargs); the plain
\* attribute self.sigma is the field _sigma
GRBGaussianLikelihood_init(self, a) ==
    LET s1 == [self EXCEPT !.x = a.x, !.y = a.y, !._sigma = a.sigma, !.N = Len(a.x),
                           !.function = a.function, !._noise_log_likelihood = F(0),
                           !.kwargs = set_kwargs(a.kwargs)]
        parameters == inferred_parameters(a.function)
    IN  IF parameters.outcome = "raise" THEN parameters
        ELSE LET s2 == Likelihood_init(s1, fromkeys(parameters.val))
             IN  Ok(IF s2._sigma = None
                    THEN [s2 EXCEPT !.parameters = Put(@, "sigma", None)]
                    ELSE s2)

\* PoissonLikelihood.__init__(time, counts, function, integrated_rate_function,
\* dt, kwargs); time is the field x and counts the field y
PoissonLikelihood_init(self, a) ==
    LET s1 == [self EXCEPT !.x = a.x, !.y = a.y, !.function = a.function,
                           !._noise_log_likelihood = F(0),
                           !.kwargs = set_kwargs(a.kwargs),
                           !.integrated_rate_function = a.integrated_rate_function]
    IN  IF a.dt = None /\ Len(a.x) < 2 THEN Raise("IndexError")
        ELSE LET step == IF a.dt = None THEN FSub(a.x[2], a.x[1]) ELSE a.dt
                 s2 == [s1 EXCEPT !.kwargs = Put(@, "dt", step)]
                 s3 == [s2 EXCEPT !.parameters =
                                     fromkeys(infer_parameters_from_function(a.function))]
             IN  Ok(Likelihood_init(s3, EmptyDict))

\* the constructor of class a.cls on the arguments a
Constructor(a) ==
    CASE a.cls = "GaussianLikelihood" -> GaussianLikelihood_init([Blank EXCEPT !.cls = a.cls], a, a.sigma)
      [] a.cls = "GaussianLikelihoodUniformXErrors" ->
            LET g == GaussianLikelihood_init([Blank EXCEPT !.cls = a.cls], a, a.sigma)
            IN  IF g.outcome = "raise" THEN g
                ELSE Ok([g.val EXCEPT !.xerr = [i \in 1..g.val.N |-> FMul(a.bin_size, F(1))]])
      [] a.cls = "GaussianLikelihoodQuadratureNoise" ->
            GaussianLikelihood_init([Blank EXCEPT !.cls = a.cls, !.sigma_i = a.sigma_i], a, None)
      [] a.cls = "GaussianLikelihoodQuadratureNoiseNonDetections" ->
            LET g == GaussianLikelihood_init([Blank EXCEPT !.cls = a.cls, !.sigma_i = a.sigma_i],
                                             a, None)
            IN  IF g.outcome = "raise" THEN g
                ELSE Ok([g.val EXCEPT !.upperlimit_kwargs = a.upperlimit_kwargs])
      [] a.cls = "GRBGaussianLikelihood" -> GRBGaussianLikelihood_init([Blank EXCEPT !.cls = a.cls], a)
      [] a.cls = "PoissonLikelihood" -> PoissonLikelihood_init([Blank EXCEPT !.cls = a.cls], a)

\* ------------------------------------------------------------------------
\* Inputs.
\* ------------------------------------------------------------------------

\* the longest observation series
MaxN == 2

\* how many times the noise-only computation may be carried out in a run
MaxRuns == 2

\* the values the sampler draws for a parameter
ParamVals == {F(-1), F(0), F(2)}

\* the observation sets: x = 1..n, y all zero or y = x
Observations ==
    UNION {{[x |-> [i \in 1..n |-> F(i)], y |-> [i \in 1..n |-> F(0)]],
            [x |-> [i \in 1..n |-> F(i)], y |-> [i \in 1..n |-> F(i)]]} : n \in 1..MaxN}

\* every dict with the keys ks (in that order) and values of vals
Dicts(ks, vals) ==
    {[i \in 1..Len(ks) |-> [k |-> ks[i], v |-> f[i]]] : f \in [1..Len(ks) -> vals]}

\* the arguments of a construction, every field given (those a class does
\* not take are None)
CtorFields(cls, o, function, sig, sigma_i, bin_size, ul, irf, step) ==
    [cls |-> cls, x |-> o.x, y |-> o.y, function |-> function, kwargs |-> NoDict,
     sigma |-> sig, sigma_i |-> sigma_i, bin_size |-> bin_size,
     upperlimit_kwargs |-> ul, integrated_rate_function |-> irf, dt |-> step]

\* the constructions of every class on the observations o and the model f
CtorArgsFor(o, f) ==
    {CtorFields(cls, o, f, sig, None, None, EmptyDict, TRUE, None) :
        cls \in {"GaussianLikelihood", "GRBGaussianLikelihood"}, sig \in {None, F(2)}}
    \cup
    {CtorFields("GaussianLikelihoodUniformXErrors", o, f, sig, None, F(2), EmptyDict, TRUE, None) :
        sig \in {None, F(2)}}
    \cup
    {CtorFields(cls, o, f, None, si, None, <<[k |-> "flux", v |-> F(2)]>>, TRUE, None) :
        cls \in {"GaussianLikelihoodQuadratureNoise",
                 "GaussianLikelihoodQuadratureNoiseNonDetections"}, si \in {F(0), F(1)}}
    \cup
    {CtorFields("PoissonLikelihood", o, f, None, None, None, EmptyDict, irf, step) :
        irf \in BOOLEAN, step \in {None, F(2)}}

CtorArgs == UNION {CtorArgsFor(o, f) : o \in Observations, f \in Models}

\* the keys of the sampler's draws: the prior's, which covers the model's
\* free parameters and may name the noise parameter
SampleKeys(function, withSigma) ==
    LET free == infer_parameters_from_function(function)
    IN  IF withSigma /\ ~(\E i \in 1..Len(free) : free[i] = "sigma")
        THEN Append(free, "sigma") ELSE free

\* ------------------------------------------------------------------------
\* The fit dispatcher (sampler.py).  A string whose letter case matters is
\* a sequence of one-character strings.
\* ------------------------------------------------------------------------

\* str.upper() of one character
UpperChar(c) ==
    CASE c = "a" -> "A" [] c = "b" -> "B" [] c = "d" -> "D" [] c = "e" -> "E"
      [] c = "g" -> "G" [] c = "i" -> "I" [] c = "k" -> "K" [] c = "l" -> "L"
      [] c = "m" -> "M" [] c = "n" -> "N" [] c = "o" -> "O" [] c = "p" -> "P"
      [] c = "r" -> "R" [] c = "s" -> "S" [] c = "t" -> "T" [] c = "u" -> "U"
      [] c = "v" -> "V"
      [] OTHER -> c

\* str.upper()
upper(str) == [i \in 1..Len(str) |-> UpperChar(str[i])]

GRB == <<"G", "R", "B">>
SGRB == <<"S", "G", "R", "B">>
LGRB == <<"L", "G", "R", "B">>
KILONOVA == <<"K", "I", "L", "O", "N", "O", "V", "A">>
PROMPT == <<"P", "R", "O", "M", "P", "T">>
SUPERNOVA == <<"S", "U", "P", "E", "R", "N", "O", "V", "A">>
TDE == <<"T", "D", "E">>

\* the routine fit_model hands the request to: the if / elif chain, "" in
\* the else branch
Route(source_type) ==
    CASE upper(source_type) \in {GRB, SGRB, LGRB} -> "_fit_grb"
      [] upper(source_type) \in {KILONOVA} -> "_fit_kilonova"
      [] upper(source_type) \in {PROMPT} -> "_fit_prompt"
      [] upper(source_type) \in {SUPERNOVA} -> "_fit_supernova"
      [] upper(source_type) \in {TDE} -> "_fit_tde"
      [] OTHER -> ""

\* an exception with the value its message names (<<>> when it names none)
RaiseNaming(exc, value) == [outcome |-> "raise", exc |-> exc, val |-> None, names |-> value]
Return(val) == [outcome |-> "ok", exc |-> "", val |-> val, names |-> <<>>]

\* the prior fit_model works with: the caller's, or the one loaded from the
\* model's prior file, which bilby fails to open when there is none
LoadPrior(a) ==
    IF a.prior # "None" THEN Return(a.prior)
    ELSE IF a.prior_file THEN Return("from_file")
    ELSE RaiseNaming("FileNotFoundError", <<>>)

\* the prior _fit_grb hands to the sampler
GrbPrior(a, prior) ==
    IF a.use_photon_index_prior
    THEN <<prior, IF a.photon_index_negative THEN "alpha_1: Uniform" ELSE "alpha_1: Gaussian">>
    ELSE <<prior>>

\* bilby.run_sampler(likelihood, priors, ...): the result object
run_sampler(likelihood, priors) == [likelihood |-> likelihood.cls, priors |-> priors]

\* the evaluator a routine constructs on the transient's data
FitConstructor(routine, a) ==
    IF routine = "_fit_grb"
    THEN Constructor(CtorFields("GRBGaussianLikelihood", a.transient, a.model, a.transient.y_err,
                                None, None, EmptyDict, TRUE, None))
    ELSE Constructor(CtorFields("PoissonLikelihood", a.transient, a.model, None,
                                None, None, EmptyDict, TRUE, a.transient.bin_size))

\* the body of a routine: [likelihoods: the evaluators it constructed,
\* sampler: its run_sampler calls, out: what it returns or raises]
Routine(routine, a, prior) ==
    IF routine \in {"_fit_kilonova", "_fit_supernova", "_fit_tde"}
    THEN [likelihoods |-> <<>>, sampler |-> <<>>, out |-> Return(None)]
    ELSE LET c == FitConstructor(routine, a)
             priors == IF routine = "_fit_grb" THEN GrbPrior(a, prior) ELSE <<prior>>
         IN  IF c.outcome = "raise"
             THEN [likelihoods |-> <<>>, sampler |-> <<>>, out |-> RaiseNaming(c.exc, <<>>)]
             ELSE [likelihoods |-> <<c.val.cls>>,
                   sampler |-> <<run_sampler(c.val, priors)>>,
                   out |-> Return(run_sampler(c.val, priors))]

\* fit_model(...): the prior, then the dispatch on source_type
fit_model(a) ==
    LET prior == LoadPrior(a)
    IN  IF prior.outcome = "raise"
        THEN [likelihoods |-> <<>>, sampler |-> <<>>, out |-> prior]
        ELSE IF Route(a.source_type) = ""
        THEN [likelihoods |-> <<>>, sampler |-> <<>>,
              out |-> RaiseNaming("ValueError", a.source_type)]
        ELSE Routine(Route(a.source_type), a, prior.val)

\* the source_type strings of the requests
SourceTypes ==
    {GRB, <<"g", "r", "b">>, <<"G", "r", "b">>, SGRB, <<"s", "g", "r", "b">>,
     LGRB, <<"l", "G", "R", "B">>, KILONOVA, <<"K", "i", "l", "o", "n", "o", "v", "a">>,
     PROMPT, <<"p", "r", "o", "m", "p", "t">>, SUPERNOVA,
     <<"S", "u", "p", "e", "r", "n", "o", "v", "a">>, TDE, <<"t", "d", "e">>,
     <<"a", "l", "i", "e", "n">>, <<"G", "R", "B", "s">>, <<>>}

\* the transients of the requests
Transients ==
    {[x |-> o.x, y |-> o.y, y_err |-> F(2), bin_size |-> b] :
        o \in Observations, b \in {None, F(2)}}

\* the requests
FitArgs ==
    [source_type : SourceTypes, prior : {"None", "given"}, prior_file : BOOLEAN,
     model : {linear, variadic}, transient : Transients,
     use_photon_index_prior : BOOLEAN, photon_index_negative : BOOLEAN]

NoFit == [likelihoods |-> <<>>, sampler |-> <<>>, out |-> Return(None)]

\* ------------------------------------------------------------------------
\* The state machine of one evaluator between construction and the calls
\* the sampler makes on it.
\* ------------------------------------------------------------------------

VARIABLES
    args,       \* the arguments of the construction
    pc,         \* "new", "ready" (constructed), "failed" (the constructor raised)
    self,       \* the evaluator's attributes
    ret,        \* the last call since the last draw: name, outcome, per-point terms
    noiseRuns,  \* how many times the noise-only computation was carried out
    fitArgs,    \* the arguments of a fit_model request
    fitPc,      \* "idle", "called", "done"
    fit,        \* what the request did: evaluators, sampler calls, outcome
    threads,    \* each thread's position in noise_log_likelihood(), local and result
    cacheWrites, \* how many times a thread assigned self._noise_log_likelihood
    transient,  \* the attributes of a Transient
    access      \* the last operation on the Transient and its outcome

evalVars == <<args, pc, self, ret, noiseRuns>>
fitVars == <<fitArgs, fitPc, fit>>
raceVars == <<threads, cacheWrites>>
transientVars == <<transient, access>>
vars == <<evalVars, fitVars, raceVars, transientVars>>

\* the threads that share the evaluator
Threads == {"t1", "t2"}

\* a thread that has not called yet
NoThread == [pc |-> "idle", local |-> None, out |-> Ok(None)]

NoRace == threads = [t \in Threads |-> NoThread] /\ cacheWrites = 0

\* the attributes of a Transient that hold data series, in the order of __init__
SeriesAttributes ==
    <<"Lum50", "Lum50_err", "flux", "flux_err", "flux_density", "flux_density_err",
      "magnitude", "magnitude_err", "counts", "counts_err", "ttes">>

\* a Transient no constructor has run on; Unset marks a missing attribute
Unset == "unset"
NoTransient ==
    [pc |-> "new", _data_mode |-> Unset, writes |-> 0,
     series |-> [i \in 1..Len(SeriesAttributes) |-> [k |-> SeriesAttributes[i], v |-> Unset]]]

\* the outcome of an operation on the Transient
Accessed(op, arg, outcome, exc, val) ==
    [op |-> op, arg |-> arg, outcome |-> outcome, exc |-> exc, val |-> val]
NoAccess == Accessed("", "", "ok", "", "")

NoTransientRun == transient = NoTransient /\ access = NoAccess

Returned(op, out, yTerms, ulTerms) ==
    [op |-> op, outcome |-> out.outcome, exc |-> out.exc, val |-> out.val,
     yTerms |-> yTerms, ulTerms |-> ulTerms]

\* no call since the last draw
NoCall == Returned("", Ok(None), <<>>, <<>>)

Init ==
    /\ args \in CtorArgs
    /\ pc = "new"
    /\ self = Blank
    /\ ret = NoCall
    /\ noiseRuns = 0
    /\ fitArgs \in {CHOOSE a \in FitArgs : TRUE}
    /\ fitPc = "idle"
    /\ fit = NoFit
    /\ NoRace
    /\ NoTransientRun

\* cls(...): the constructor runs
Construct ==
    /\ pc = "new"
    /\ LET c == Constructor(args)
       IN  /\ pc' = IF c.outcome = "raise" THEN "failed" ELSE "ready"
           /\ self' = IF c.outcome = "raise" THEN self ELSE c.val
           /\ ret' = Returned("__init__", IF c.outcome = "raise" THEN c ELSE Ok(None), <<>>, <<>>)
    /\ UNCHANGED <<args, noiseRuns, fitVars, raceVars, transientVars>>

\* the sampler writes a draw into the parameter vector: parameters.update(sample)
SamplerUpdate ==
    /\ pc = "ready"
    /\ \E withSigma \in BOOLEAN :
          /\ Has(self.parameters, "sigma") => withSigma
          /\ \E sample \in Dicts(SampleKeys(self.function, withSigma), ParamVals) :
                self' = [self EXCEPT !.parameters = Update(@, sample)]
    /\ ret' = NoCall
    /\ UNCHANGED <<args, pc, noiseRuns, fitVars, raceVars, transientVars>>

\* noise_log_likelihood()
NoiseLogLikelihood ==
    /\ pc = "ready"
    /\ noiseRuns < MaxRuns
    /\ LET r == noise_log_likelihood(self)
       IN  /\ self' = r.self
           /\ ret' = Returned("noise_log_likelihood", r.out, <<>>, <<>>)
           /\ noiseRuns' = IF r.ran THEN noiseRuns + 1 ELSE noiseRuns
    /\ UNCHANGED <<args, pc, fitVars, raceVars, transientVars>>

\* the per-point terms log_likelihood() sums: of the Gaussian kernel and of
\* the upper limits
YTerms(s) ==
    LET res == residual(s)
        fs == full_sigma(s)
    IN  IF res.outcome = "raise" \/ fs.outcome = "raise" THEN <<>>
        ELSE _log_l_terms(res.val, fs.val)

ULTerms(s) ==
    LET flux == upper_limit_model_flux(s)
    IN  IF flux.outcome = "raise" THEN <<>> ELSE upper_limit_terms(s, flux.val)

\* log_likelihood()
LogLikelihood ==
    /\ pc = "ready"
    /\ LET nd == self.cls = "GaussianLikelihoodQuadratureNoiseNonDetections"
       IN  ret' = Returned("log_likelihood", log_likelihood(self),
                           IF nd THEN YTerms(self) ELSE <<>>,
                           IF nd THEN ULTerms(self) ELSE <<>>)
    /\ self' = log_likelihood_effect(self)
    /\ UNCHANGED <<args, pc, noiseRuns, fitVars, raceVars, transientVars>>

\* log_likelihood_upper_limit() of the non-detection evaluator
LogLikelihoodUpperLimit ==
    /\ pc = "ready"
    /\ self.cls = "GaussianLikelihoodQuadratureNoiseNonDetections"
    /\ ret' = Returned("log_likelihood_upper_limit", log_likelihood_upper_limit(self),
                       <<>>, ULTerms(self))
    /\ UNCHANGED <<args, pc, self, noiseRuns, fitVars, raceVars, transientVars>>

Next ==
    \/ Construct
    \/ SamplerUpdate
    \/ NoiseLogLikelihood
    \/ LogLikelihood
    \/ LogLikelihoodUpperLimit

Spec == Init /\ [][Next]_vars

\* ------------------------------------------------------------------------
\* Properties of the evaluators (checked under Spec).
\* ------------------------------------------------------------------------

\* C1: for every evaluator class and any sequence of calls on one evaluator,
\* the noise-only computation is carried out at most once.
C1_NoiseComputedAtMostOnce == noiseRuns <= 1

\* the noise-only values the other draws of the sampler would give this evaluator
OtherNoiseValues ==
    {noise_computation([self EXCEPT !.parameters = Update(@, sample)]) :
        sample \in Dicts(SampleKeys(self.function, Has(self.parameters, "sigma")), ParamVals)}

\* C2: the value noise_log_likelihood() returns does not depend on the sampled
\* parameter vector: it is the value the computation gives under every other
\* draw of the sampler.
C2_NoiseIndependentOfParameters ==
    (ret.op = "noise_log_likelihood" /\ ret.outcome = "ok") =>
        \A other \in OtherNoiseValues : other.outcome = "ok" => other.val = ret.val

\* C3: an evaluator constructed with a fixed sigma resolves the noise standard
\* deviation to that sigma, whatever the parameter vector holds.
C3_FixedSigmaAlwaysReturned ==
    (pc = "ready" /\ args.sigma # None) => sigma(self) = args.sigma

\* whether the physical model raises on the evaluator's current parameters
ModelRaises(s) == CallModel(s.function, s.x, s.parameters, s.kwargs).exc = "ValueError"

\* the values that stand for minus infinity: IEEE -inf and the most negative double
NegativeInfinity == {NegInf, NegMax}

\* C4: when the physical model raises during the evaluation, log_likelihood()
\* returns negative infinity instead of propagating the exception.
C4_ModelExceptionGivesNegInf ==
    (ret.op = "log_likelihood" /\ ModelRaises(self)) =>
        (ret.outcome = "ok" /\ ret.val \in NegativeInfinity)

\* the rate PoissonLikelihood.log_likelihood takes the logarithm of
PoissonRate(s) ==
    LET m == CallModel(s.function, s.x, s.parameters, s.kwargs)
    IN  [i \in 1..Len(m.val) |->
            IF s.integrated_rate_function
            THEN FAdd(m.val[i], Get(s.parameters, "background_rate"))
            ELSE FMul(FAdd(m.val[i], Get(s.parameters, "background_rate")), dt(s))]

\* a degenerate draw on which the model itself evaluates: sigma <= 0 in a
\* Gaussian class, a rate <= 0 in the Poisson class (the non-detection class,
\* whose second model call can raise on its own, is left out)
Degenerate(s) ==
    /\ CallModel(s.function, s.x, s.parameters, s.kwargs).outcome = "ok"
    /\ IF s.cls = "PoissonLikelihood"
       THEN /\ Has(s.parameters, "background_rate")
            /\ Get(s.parameters, "background_rate") # None
            /\ \E i \in 1..Len(s.x) : PoissonRate(s)[i].k = "fin" /\ PoissonRate(s)[i].v <= 0
       ELSE /\ s.cls # "GaussianLikelihoodQuadratureNoiseNonDetections"
            /\ sigma(s) # None
            /\ sigma(s).v <= 0

\* C5: a degenerate draw makes log_likelihood() return the representable
\* negative infinity: it never raises and never returns NaN or plus infinity.
C5_DegenerateDrawGivesNegInf ==
    (ret.op = "log_likelihood" /\ Degenerate(self)) =>
        (ret.outcome = "ok" /\ ret.val \in NegativeInfinity)

\* whether point i of the re-evaluated model flux is strictly below the threshold
BelowThreshold(i) == upper_limit_model_flux(self).val[i].v < upperlimit_flux(self).v

\* the points of the flux log_likelihood_upper_limit() re-evaluated
FluxPoints == 1..Len(upper_limit_model_flux(self).val)

\* C6 as stated: whenever a point is at or above the threshold the sum
\* log_likelihood_upper_limit() returns is negative infinity.
C6_AtOrAboveGivesNegInf ==
    (/\ ret.op = "log_likelihood_upper_limit"
     /\ ret.outcome = "ok"
     /\ \E i \in FluxPoints : ~BelowThreshold(i)) => ret.val = NegInf

\* C6 amended: log_likelihood_upper_limit() sums one term per point, -ln(threshold)
\* for a flux strictly below the threshold and the most negative finite double
\* (nan_to_num(-inf)) for a flux at or above it; with a point at or above the
\* threshold the sum it returns is that most negative finite double.
C6_UpperLimitTerms ==
    (ret.op = "log_likelihood_upper_limit" /\ ret.outcome = "ok") =>
        /\ DOMAIN ret.ulTerms = FluxPoints
        /\ \A i \in FluxPoints :
              ret.ulTerms[i] = IF BelowThreshold(i)
                               THEN Milli(-LnMilli(upperlimit_flux(self).v))
                               ELSE NegMax
        /\ (\E i \in FluxPoints : ~BelowThreshold(i)) => ret.val = NegMax
        /\ (\A i \in FluxPoints : BelowThreshold(i)) =>
              ret.val = Milli(-Len(self.x) * LnMilli(upperlimit_flux(self).v))

\* a two-point case of C6: one flux below the threshold, one at or above it
C6_Witness ==
    /\ ret.op = "log_likelihood_upper_limit"
    /\ ret.outcome = "ok"
    /\ \E i, j \in FluxPoints : BelowThreshold(i) /\ ~BelowThreshold(j)
    /\ ret.val = NegMax

\* C7: in log_likelihood() of the non-detection evaluator every observation
\* contributes to exactly one of the two terms, the Gaussian one or the
\* upper-limit one.
C7_EachPointInOneTerm ==
    (/\ ret.op = "log_likelihood"
     /\ self.cls = "GaussianLikelihoodQuadratureNoiseNonDetections"
     /\ ret.outcome = "ok") =>
        \A i \in 1..self.N : (i \in DOMAIN ret.yTerms) # (i \in DOMAIN ret.ulTerms)

\* C10: the free-parameter names a Gaussian evaluator derives from its model
\* are the model's named formal parameters without the first, in declaration
\* order, and never a variadic entry; `derived` leaves out the noise parameter
\* the constructor appends when sigma is inferred.
C10_FreeParameterNames ==
    (pc = "ready" /\ ret.op = "__init__" /\ self.cls # "PoissonLikelihood") =>
        LET sig == self.function.sig
            keys == Keys(self.parameters)
            appended == self._sigma = None
                        /\ ~(\E i \in 1..Len(sig) : sig[i].kind = "arg" /\ sig[i].name = "sigma")
            derived == IF appended THEN SubSeq(keys, 1, Len(keys) - 1) ELSE keys
        IN  /\ Len(derived) + 1 = Cardinality({i \in 1..Len(sig) : sig[i].kind = "arg"})
            /\ \A j \in 1..Len(derived) :
                  sig[j + 1].kind = "arg" /\ derived[j] = sig[j + 1].name

\* the signature (time, amplitude, decay, **kwargs) yields amplitude, decay
C10_Witness ==
    /\ pc = "ready"
    /\ ret.op = "__init__"
    /\ self.function = decaying
    /\ self._sigma # None
    /\ Keys(self.parameters) = <<"amplitude", "decay">>

\* C11: constructing an evaluator on a model whose signature has no named
\* formal parameter fails in the constructor with a ConfigurationError.
C11_VariadicOnlyRejected ==
    (ret.op = "__init__" /\ getfullargspec_args(args.function) = <<>>) =>
        (pc = "failed" /\ ret.outcome = "raise" /\ ret.exc = "ConfigurationError")

\* the quadrature-noise evaluators
QuadratureClasses ==
    {"GaussianLikelihoodQuadratureNoise", "GaussianLikelihoodQuadratureNoiseNonDetections"}

\* C12: in a quadrature-noise evaluator whose inferred sigma is negative,
\* full_sigma fails with InvalidParameter, and so does a log_likelihood() or
\* noise_log_likelihood() call that resolves it.
C12_NegativeSigmaRejected ==
    (/\ pc = "ready"
     /\ self.cls \in QuadratureClasses
     /\ sigma(self).k = "fin"
     /\ sigma(self).v < 0) =>
        /\ full_sigma(self).outcome = "raise"
        /\ full_sigma(self).exc = "InvalidParameter"
        /\ (ret.op \in {"log_likelihood", "noise_log_likelihood"}
            /\ ~CacheHit(self)) => ret.exc = "InvalidParameter"

\* the key set C13 states for an evaluator constructed on the arguments a:
\* the model's named formal parameters without the first, and "sigma" when
\* sigma is inferred
StatedKeys(a) ==
    LET names == getfullargspec_args(a.function)
        free == {names[i] : i \in 2..Len(names)}
        inferred == a.cls \in QuadratureClasses
                    \/ (a.cls # "PoissonLikelihood" /\ a.sigma = None)
    IN  IF inferred THEN free \cup {"sigma"} ELSE free

\* C13: right after the construction of an evaluator of any class, the keys
\* of its parameter vector are exactly the model's formal arguments without
\* the independent variable, plus "sigma" if and only if sigma is inferred.
C13_ParameterKeysAfterConstruction ==
    (pc = "ready" /\ ret.op = "__init__") => KeySet(self.parameters) = StatedKeys(args)

\* the keyword arguments a model evaluation of the evaluator s passes:
\* **self.parameters and **self.kwargs (or **self.upperlimit_kwargs)
ModelKeywords(s, op) ==
    KeySet(s.parameters)
        \cup (IF op = "log_likelihood_upper_limit" THEN {} ELSE KeySet(s.kwargs))
        \cup (IF s.cls = "GaussianLikelihoodQuadratureNoiseNonDetections"
              THEN KeySet(s.upperlimit_kwargs) ELSE {})

\* C14: log_likelihood() of every class changes no evaluator state (parameter
\* vector, fixed kwargs, observations, noise-only cache), and a second call on
\* the same parameter vector returns what the first returned.
C14_LogLikelihoodChangesNoState ==
    /\ [](ret.op = "log_likelihood" =>
            /\ log_likelihood(self).outcome = ret.outcome
            /\ log_likelihood(self).exc = ret.exc
            /\ log_likelihood(self).val = ret.val)
    /\ [][ret'.op = "log_likelihood" => (self' = self /\ args' = args)]_vars

\* log_likelihood() returned a finite value on an evaluator whose noise-only
\* cache is filled and whose parameter vector the sampler has written
C14_Witness ==
    /\ ret.op = "log_likelihood"
    /\ ret.outcome = "ok"
    /\ ret.val.k = "fin"
    /\ CacheHit(self)
    /\ \A i \in 1..Len(self.parameters) : self.parameters[i].v # None

\* C16: on a model that predicts zero signal at every point, a call of
\* noise_log_likelihood() that carries out the noise-only computation returns
\* what log_likelihood() returns, for every class and parameter vector.
C16_NoiseIsSignalFreeLikelihood ==
    (/\ pc = "ready"
     /\ self.function = silent
     /\ ~CacheHit(self)
     /\ log_likelihood(self).outcome = "ok"
     /\ noise_log_likelihood(self).out.outcome = "ok") =>
        noise_log_likelihood(self).out.val = log_likelihood(self).val

\* C17: a model evaluation never passes the noise parameter "sigma" to a
\* model that has no formal parameter of that name.
C17_SigmaNotPassedToModel ==
    (/\ ret.op \in {"log_likelihood", "log_likelihood_upper_limit"}
     /\ \A i \in 1..Len(self.function.sig) : self.function.sig[i].name # "sigma") =>
        "sigma" \notin ModelKeywords(self, ret.op)


\* ------------------------------------------------------------------------
\* Two threads calling noise_log_likelihood() on one evaluator.  The method
\* takes no lock, so its statements interleave: the test of the cache, the
\* noise-only computation, the assignment of the cache and the return.
\* ------------------------------------------------------------------------

\* the evaluators the threads share: every class, on the models an
\* evaluation succeeds with
RaceArgs == {a \in CtorArgs : a.function \in {linear, counts_model}}

RaceInit ==
    /\ args \in RaceArgs
    /\ pc = "new"
    /\ self = Blank
    /\ ret = NoCall
    /\ noiseRuns = 0
    /\ fitArgs \in {CHOOSE a \in FitArgs : TRUE}
    /\ fitPc = "idle"
    /\ fit = NoFit
    /\ NoRace
    /\ NoTransientRun

\* the sampler's draw, written before the threads call
RaceUpdate ==
    /\ \A t \in Threads : threads[t].pc = "idle"
    /\ SamplerUpdate

\* `if self._noise_log_likelihood is None:` (the classes without the test
\* go on to the computation)
ThreadTest(t) ==
    /\ pc = "ready"
    /\ threads[t].pc = "idle"
    /\ threads' = [threads EXCEPT ![t].pc = IF CacheHit(self) THEN "return" ELSE "compute"]
    /\ UNCHANGED <<evalVars, fitVars, cacheWrites, transientVars>>

\* the right-hand side of the assignment: the noise-only computation
ThreadCompute(t) ==
    /\ threads[t].pc = "compute"
    /\ LET c == noise_computation(self)
       IN  /\ threads' = [threads EXCEPT
                            ![t].pc = IF c.outcome = "raise" \/ ~CacheStore(self)
                                      THEN "done" ELSE "store",
                            ![t].local = c.val,
                            ![t].out = c]
           /\ noiseRuns' = IF c.outcome = "raise" THEN noiseRuns ELSE noiseRuns + 1
    /\ UNCHANGED <<args, pc, self, ret, fitVars, cacheWrites, transientVars>>

\* `self._noise_log_likelihood = ...`
ThreadStore(t) ==
    /\ threads[t].pc = "store"
    /\ self' = [self EXCEPT !._noise_log_likelihood = threads[t].local]
    /\ cacheWrites' = cacheWrites + 1
    /\ threads' = [threads EXCEPT ![t].pc = "return"]
    /\ UNCHANGED <<args, pc, ret, noiseRuns, fitVars, transientVars>>

\* `return self._noise_log_likelihood`
ThreadReturn(t) ==
    /\ threads[t].pc = "return"
    /\ threads' = [threads EXCEPT ![t].pc = "done",
                                  ![t].out = Ok(self._noise_log_likelihood)]
    /\ UNCHANGED <<evalVars, fitVars, cacheWrites, transientVars>>

RaceNext ==
    \/ Construct
    \/ RaceUpdate
    \/ \E t \in Threads : ThreadTest(t)
    \/ \E t \in Threads : ThreadCompute(t)
    \/ \E t \in Threads : ThreadStore(t)
    \/ \E t \in Threads : ThreadReturn(t)

RaceSpec == RaceInit /\ [][RaceNext]_vars

\* C15: when two threads call noise_log_likelihood() on one evaluator whose
\* cache is not filled, under every interleaving the noise-only computation
\* is carried out at most once, the cache is assigned at most once, and both
\* callers receive the same value.
C15_RaceComputesOnce ==
    /\ noiseRuns <= 1
    /\ cacheWrites <= 1
    /\ (\A t \in Threads : threads[t].pc = "done") =>
            \A t, u \in Threads : threads[t].out = threads[u].out

\* ------------------------------------------------------------------------
\* Transient (transient/transient.py): the data mode and the accessors of
\* the data series it selects.  NoneMode / NoSeries stand for Python's None
\* as a data mode / as a series.
\* ------------------------------------------------------------------------

NoneMode == "None"
NoSeries == "None"

DATA_MODES == <<"luminosity", "flux", "flux_density", "photometry", "counts", "ttes">>

_ATTRIBUTE_NAME_DICT ==
    <<[k |-> "luminosity", v |-> "Lum50"], [k |-> "flux", v |-> "flux"],
      [k |-> "flux_density", v |-> "flux_density"], [k |-> "counts", v |-> "counts"],
      [k |-> "photometry", v |-> "magnitude"]>>

\* name + "_err"
ErrName(name) ==
    CASE name = "Lum50" -> "Lum50_err"
      [] name = "flux" -> "flux_err"
      [] name = "flux_density" -> "flux_density_err"
      [] name = "counts" -> "counts_err"
      [] name = "magnitude" -> "magnitude_err"

\* how many assignments through the y and y_err setters a run makes
MaxWrites == 1

\* Transient.data_mode (setter): [self: the Transient after the call, out]
set_data_mode(tr, data_mode) ==
    IF (\E i \in 1..Len(DATA_MODES) : DATA_MODES[i] = data_mode) \/ data_mode = NoneMode
    THEN [self |-> [tr EXCEPT !._data_mode = data_mode], out |-> Ok(None)]
    ELSE [self |-> tr, out |-> Raise("ValueError")]

\* Transient._y_attribute_name (property): a dict lookup, KeyError on a miss
_y_attribute_name(tr) ==
    IF Has(_ATTRIBUTE_NAME_DICT, tr._data_mode)
    THEN Ok(Get(_ATTRIBUTE_NAME_DICT, tr._data_mode))
    ELSE Raise("KeyError")

\* Transient._y_err_attribute_name (property)
_y_err_attribute_name(tr) ==
    IF Has(_ATTRIBUTE_NAME_DICT, tr._data_mode)
    THEN Ok(ErrName(Get(_ATTRIBUTE_NAME_DICT, tr._data_mode)))
    ELSE Raise("KeyError")

\* getattr(self, name)
getattr(tr, name) ==
    IF Has(tr.series, name.val) /\ Get(tr.series, name.val) # Unset
    THEN Ok(Get(tr.series, name.val))
    ELSE Raise("AttributeError")

\* Transient.y / Transient.y_err (getters)
y(tr) == IF _y_attribute_name(tr).outcome = "raise" THEN _y_attribute_name(tr)
         ELSE getattr(tr, _y_attribute_name(tr))
y_err(tr) == IF _y_err_attribute_name(tr).outcome = "raise" THEN _y_err_attribute_name(tr)
             ELSE getattr(tr, _y_err_attribute_name(tr))

\* Transient.y / Transient.y_err (setters): setattr(self, name, value)
set_y(tr, name, value) ==
    IF name.outcome = "raise" THEN [self |-> tr, out |-> name]
    ELSE [self |-> [tr EXCEPT !.series = Put(@, name.val, value)], out |-> Ok(None)]

\* bin_ttes(ttes, bin_size): the binned counts
bin_ttes(ttes) == "binned"

\* Transient.__init__: the series attributes, then the data mode through its
\* setter
Transient_init(a) ==
    LET counts == IF a.data_mode = "ttes" THEN bin_ttes(a.ttes) ELSE a.counts
        given == <<a.Lum50, a.Lum50, a.flux, a.flux, a.flux_density, a.flux_density,
                   a.magnitude, a.magnitude, counts,
                   IF counts # NoSeries THEN "sqrt" ELSE NoSeries, a.ttes>>
        s1 == [NoTransient EXCEPT
                  !.series = [i \in 1..Len(SeriesAttributes) |->
                                 [k |-> SeriesAttributes[i], v |-> given[i]]]]
        m == set_data_mode(s1, a.data_mode)
    IN  IF m.out.outcome = "raise" THEN [self |-> NoTransient, out |-> m.out]
        ELSE [self |-> [m.self EXCEPT !.pc = "ready"], out |-> Ok(None)]

\* the values assigned to data_mode: the modes, None and an unknown one
ModeValues == {DATA_MODES[i] : i \in 1..Len(DATA_MODES)} \cup {NoneMode, "spectrum"}

\* the constructions: every series given or not, a series with its error
TransientArgs ==
    {a \in [data_mode : ModeValues, Lum50 : {NoSeries, "series"}, flux : {NoSeries, "series"},
             flux_density : {NoSeries}, magnitude : {NoSeries, "series"},
             counts : {NoSeries, "series"}, ttes : {NoSeries, "series"}] :
        a.data_mode = "ttes" => a.ttes # NoSeries}

TransientInit ==
    /\ NoTransientRun
    /\ args \in {CHOOSE a \in CtorArgs : TRUE}
    /\ pc = "new"
    /\ self = Blank
    /\ ret = NoCall
    /\ noiseRuns = 0
    /\ fitArgs \in {CHOOSE a \in FitArgs : TRUE}
    /\ fitPc = "idle"
    /\ fit = NoFit
    /\ NoRace

\* Transient(...)
TransientConstruct ==
    /\ transient.pc = "new"
    /\ access = NoAccess
    /\ \E a \in TransientArgs :
          /\ transient' = [Transient_init(a).self EXCEPT !.writes = 0]
          /\ access' = Accessed("__init__", a.data_mode, Transient_init(a).out.outcome,
                                 Transient_init(a).out.exc, "")
    /\ UNCHANGED <<evalVars, fitVars, raceVars>>

\* transient.data_mode = value
SetDataMode ==
    /\ transient.pc = "ready"
    /\ \E value \in ModeValues :
          LET r == set_data_mode(transient, value)
          IN  /\ transient' = r.self
              /\ access' = Accessed("data_mode", value, r.out.outcome, r.out.exc, "")
    /\ UNCHANGED <<evalVars, fitVars, raceVars>>

\* transient.y
GetY ==
    /\ transient.pc = "ready"
    /\ access' = Accessed("y", "", y(transient).outcome, y(transient).exc, y(transient).val)
    /\ UNCHANGED <<evalVars, fitVars, raceVars, transient>>

\* transient.y_err
GetYErr ==
    /\ transient.pc = "ready"
    /\ access' = Accessed("y_err", "", y_err(transient).outcome, y_err(transient).exc,
                           y_err(transient).val)
    /\ UNCHANGED <<evalVars, fitVars, raceVars, transient>>

\* transient.y = value
SetY ==
    /\ transient.pc = "ready"
    /\ transient.writes < MaxWrites
    /\ LET r == set_y(transient, _y_attribute_name(transient), "assigned")
       IN  /\ transient' = [r.self EXCEPT !.writes = @ + 1]
           /\ access' = Accessed("y=", "assigned", r.out.outcome, r.out.exc, "")
    /\ UNCHANGED <<evalVars, fitVars, raceVars>>

\* transient.y_err = value
SetYErr ==
    /\ transient.pc = "ready"
    /\ transient.writes < MaxWrites
    /\ LET r == set_y(transient, _y_err_attribute_name(transient), "assigned")
       IN  /\ transient' = [r.self EXCEPT !.writes = @ + 1]
           /\ access' = Accessed("y_err=", "assigned", r.out.outcome, r.out.exc, "")
    /\ UNCHANGED <<evalVars, fitVars, raceVars>>

TransientNext ==
    \/ TransientConstruct
    \/ SetDataMode
    \/ GetY
    \/ GetYErr
    \/ SetY
    \/ SetYErr

TransientSpec == TransientInit /\ [][TransientNext]_vars

\* C18: after any sequence of data_mode assignments the current mode, when one
\* is set, is a mode whose y and y_err accessors resolve to a stored series
\* attribute; an assignment the setter refuses raises ValueError.
C18_AcceptedModeResolves ==
    /\ (transient.pc = "ready" /\ transient._data_mode # NoneMode) =>
            (y(transient).outcome = "ok" /\ y_err(transient).outcome = "ok")
    /\ (access.op = "data_mode" /\ access.outcome = "raise") => access.exc = "ValueError"

\* ------------------------------------------------------------------------
\* The state machine of one fit_model request.
\* ------------------------------------------------------------------------

FitInit ==
    /\ fitArgs \in FitArgs
    /\ fitPc = "called"
    /\ fit = NoFit
    /\ args \in {CHOOSE a \in CtorArgs : TRUE}
    /\ pc = "new"
    /\ self = Blank
    /\ ret = NoCall
    /\ noiseRuns = 0
    /\ NoRace
    /\ NoTransientRun

\* fit_model(...) runs to its return or its exception
FitModel ==
    /\ fitPc = "called"
    /\ fit' = fit_model(fitArgs)
    /\ fitPc' = "done"
    /\ UNCHANGED <<fitArgs, evalVars, raceVars, transientVars>>

FitNext == FitModel

FitSpec == FitInit /\ [][FitNext]_vars

\* ------------------------------------------------------------------------
\* Properties of the fit dispatcher (checked under FitSpec).
\* ------------------------------------------------------------------------

\* C8: for every source_type that is not a supported type, fit_model fails
\* with an error that names the offending value, constructs no evaluator and
\* does not invoke the sampler, whether or not a prior was supplied.
C8_UnsupportedSourceTypeNamed ==
    (fitPc = "done" /\ Route(fitArgs.source_type) = "") =>
        /\ fit.out.outcome = "raise"
        /\ fit.out.exc = "ValueError"
        /\ fit.out.names = fitArgs.source_type
        /\ fit.likelihoods = <<>>
        /\ fit.sampler = <<>>

\* C9: for every supported source type, fit_model constructs a likelihood
\* evaluator, invokes the sampler exactly once with it and the prior, and
\* returns the sampler's result (stated for the requests that supply a prior
\* and a model and data an evaluator can be constructed on).
C9_SupportedTypeRunsSampler ==
    (/\ fitPc = "done"
     /\ Route(fitArgs.source_type) # ""
     /\ fitArgs.prior = "given"
     /\ fitArgs.model = linear
     /\ Len(fitArgs.transient.x) >= 2) =>
        /\ Len(fit.likelihoods) = 1
        /\ Len(fit.sampler) = 1
        /\ fit.sampler[1].likelihood = fit.likelihoods[1]
        /\ fit.out = Return(fit.sampler[1])
====
